---- MODULE Spec2Model ----
(***************************************************************************)
(* A model of src/main.py (PyxTerm, a Textual application): the tab bar,   *)
(* the sidebar tree of connections, the connection menu and the two modal  *)
(* screens whose dismissal runs the add / edit / remove callbacks.         *)
(*                                                                         *)
(* Widget behaviour the source relies on is modelled as the widget library *)
(* documents it: Tree.root.add gives the new node the tree's next node id  *)
(* (root is node 0), Tabs names the tab built from its n-th string "tab-n",*)
(* Tabs.remove_tab activates the following tab (else the preceding one), a *)
(* modal screen blocks the application's bindings and the widgets under it,*)
(* and dismiss(result) pops the screen and hands result to the callback    *)
(* given to push_screen.                                                   *)
(***************************************************************************)
EXTENDS Integers, Sequences, FiniteSets, TLC

VARIABLES
    tab_counter,      \* PyxTerm.tab_counter
    tabs,             \* the Tabs widget: sequence of tab identifiers, in order
    active,           \* Tabs.active
    sidebar_hidden,   \* Sidebar has class "-hidden"
    tree,             \* children of tree.root, in order: records [id, label, parent, allow_expand]
    tree_current_id,  \* the Tree's node-id counter (next id handed out)
    connections,      \* PyxTerm.connections: node id -> record returned by the modal
    screen,           \* top of the screen stack: "main", "ConnectionModal", "ConfirmModal"
    callback,         \* callback given to push_screen, "none" when no modal was pushed
    selected_node,    \* node captured by the callback's closure (NoNode for add)
    connection_data,  \* ConnectionModal.connection_data (the prefilled form)
    result,           \* value passed to dismiss(), waiting for the callback
    notification,     \* text of the last self.notify(...)
    exception         \* "none", or the exception an action raised (the app stops)

vars == << tab_counter, tabs, active, sidebar_hidden, tree, tree_current_id,
           connections, screen, callback, selected_node, connection_data,
           result, notification, exception >>

tab_vars == << tab_counter, tabs, active >>
conn_vars == << tree, tree_current_id, connections >>
modal_vars == << screen, callback, selected_node, connection_data, result >>

----------------------------------------------------------------------------
(* Bounds of the model *)

\* action_new_tab is disabled once tab_counter reaches this value
MaxTabCounter == 4

\* the Add Connection modal is not opened once the tree handed out this many
\* node ids
MaxNodeId == 3

----------------------------------------------------------------------------
(* Constants of the program *)

\* INITIAL_TABS = ["home glyph"]: one tab, the home tab
INITIAL_TABS == << "home" >>

\* id of tree.root
RootId == 0

\* tree.cursor_node is None
NoNode == -1

\* the identifier Tabs gives the tab made from its n-th string, and the
\* f-string f"tab-{self.tab_counter}"
TabId(n) == "tab-" \o ToString(n)

\* the dict ConnectionModal.on_button_pressed builds on Save
ConnectionRecord(host, port, label, group, password) ==
    [ host |-> host, port |-> port, label |-> label, group |-> group,
      password |-> password ]

\* what the user may have typed into the five inputs of ConnectionModal when
\* a button is pressed: nothing at all, a well-formed profile, and a profile
\* with the same label, another group and a port that is no TCP port
FormInputs ==
    { ConnectionRecord("", "", "", "", ""),
      ConnectionRecord("10.0.0.5", "22", "db1", "prod", ""),
      ConnectionRecord("10.0.0.5", "70000", "db1", "dev", "") }

\* the form shown for connection_data = {}: every .get(key, "") gives ""
EmptyData == ConnectionRecord("", "", "", "", "")

\* values handed to dismiss(): None, a bool, or the dict of the form
None == [ kind |-> "None", flag |-> FALSE, data |-> EmptyData ]
Bool(b) == [ kind |-> "bool", flag |-> b, data |-> EmptyData ]
Dict(d) == [ kind |-> "dict", flag |-> FALSE, data |-> d ]
\* no dismiss() yet
Pending == [ kind |-> "pending", flag |-> FALSE, data |-> EmptyData ]

\* the test `if result is not None:` in place of `if result:`
IsNotNone(r) == r.kind # "None"

\* Python truth value of a dismiss result (`if result:`): None and False are
\* false, True is true, a dict is true when it has keys (the form's dict has 5)
Truthy(r) ==
    CASE r.kind = "None" -> FALSE
      [] r.kind = "bool" -> r.flag
      [] r.kind = "dict" -> Cardinality(DOMAIN r.data) > 0
      [] OTHER -> FALSE

----------------------------------------------------------------------------
(* State after construction and compose() *)

Init ==
    /\ tab_counter = Len(INITIAL_TABS) + 1
    /\ tabs = [ i \in 1..Len(INITIAL_TABS) |-> TabId(i) ]
    /\ active = TabId(1)
    /\ sidebar_hidden = TRUE
    /\ tree = << >>
    /\ tree_current_id = RootId + 1
    /\ connections = << >>
    /\ screen = "main"
    /\ callback = "none"
    /\ selected_node = NoNode
    /\ connection_data = EmptyData
    /\ result = Pending
    /\ notification = ""
    /\ exception = "none"

\* the main screen is on top, no callback is waiting and the app runs
Idle == screen = "main" /\ callback = "none" /\ exception = "none"

----------------------------------------------------------------------------
(* Tabs *)

\* a tab identifier numbered by the tabs now open, not by tab_counter
new_tab_id_by_count == TabId(Len(tabs) + 1)

\* f"tab-{self.tab_counter}"
new_tab_id == TabId(tab_counter)

\* the test of action_close_tab written as "at least one tab"
AtLeastOneTab == Len(tabs) > 0

\* len(tabs.query("Tab")) > 1
MoreThanOneTab == Len(tabs) > 1

\* position of tab t in the tab bar
TabIndex(t) == CHOOSE i \in 1..Len(tabs) : tabs[i] = t

\* the tab bar without tab t
WithoutTab(t) ==
    LET i == TabIndex(t)
    IN  SubSeq(tabs, 1, i - 1) \o SubSeq(tabs, i + 1, Len(tabs))

\* Tabs.remove_tab: the tab that becomes active when tab t is removed, the one
\* that follows it, else the one before it, else none ("")
NextActive(t) ==
    LET i == TabIndex(t)
    IN  IF i < Len(tabs) THEN tabs[i + 1]
        ELSE IF i > 1 THEN tabs[i - 1]
        ELSE ""

action_new_tab ==
    /\ Idle
    /\ tab_counter < MaxTabCounter
    /\ tabs' = Append(tabs, new_tab_id)
    /\ active' = new_tab_id
    /\ tab_counter' = tab_counter + 1
    /\ notification' = "New tab created: " \o new_tab_id
    /\ UNCHANGED << sidebar_hidden, conn_vars, modal_vars, exception >>

action_close_tab ==
    /\ Idle
    /\ IF MoreThanOneTab
       THEN /\ tabs' = WithoutTab(active)
            /\ active' = NextActive(active)
            /\ notification' = "Tab closed: " \o active
       ELSE /\ notification' = "Cannot close the last tab"
            /\ UNCHANGED << tabs, active >>
    /\ UNCHANGED << tab_counter, sidebar_hidden, conn_vars, modal_vars, exception >>

\* the user picks another tab of the tab bar
activate_tab ==
    /\ Idle
    /\ \E i \in 1..Len(tabs) :
          /\ tabs[i] # active
          /\ active' = tabs[i]
    /\ UNCHANGED << tab_counter, tabs, sidebar_hidden, conn_vars, modal_vars,
                    notification, exception >>

action_toggle_sidebar ==
    /\ Idle
    /\ sidebar_hidden' = ~sidebar_hidden
    /\ notification' = "Sidebar toggled"
    /\ UNCHANGED << tab_vars, conn_vars, modal_vars, exception >>

----------------------------------------------------------------------------
(* The sidebar tree and self.connections *)

\* identifiers of the nodes under tree.root
NodeIds == { tree[i].id : i \in 1..Len(tree) }

\* the tree node with identifier id
Node(id) == CHOOSE n \in { tree[i] : i \in 1..Len(tree) } : n.id = id

\* node.label; the root is Tree("Connections")
NodeLabel(id) == IF id \in NodeIds THEN Node(id).label ELSE "Connections"

\* a node id numbered by the children the root has now
NodeIdByCount == Len(tree) + 1

\* the id Tree gives the node created by tree.root.add(label)
NewNodeId == tree_current_id

\* tree.root.add(label) followed by new_node.allow_expand = False
TreeAdd(id, label) ==
    Append(tree, [ id |-> id, label |-> label, parent |-> RootId,
                   allow_expand |-> FALSE ])

\* selected_node.label = label
TreeSetLabel(id, label) ==
    [ i \in 1..Len(tree) |->
        IF tree[i].id = id THEN [ tree[i] EXCEPT !.label = label ] ELSE tree[i] ]

\* selected_node.remove()
TreeRemove(id) == SelectSeq(tree, LAMBDA n : n.id # id)

\* self.connections.setdefault(key, value): a present key keeps its value
SetDefault(key, value) ==
    [ k \in DOMAIN connections \cup { key } |->
        IF k \in DOMAIN connections THEN connections[k] ELSE value ]

\* self.connections[key] = value
SetItem(key, value) ==
    [ k \in DOMAIN connections \cup { key } |->
        IF k = key THEN value ELSE connections[k] ]

\* the removal of the tree node alone, the dict entry left behind
DelItemOmitted(key) == connections

\* del self.connections[key], for a key that is present
DelItem(key) == [ k \in DOMAIN connections \ { key } |-> connections[k] ]

\* self.connections.get(key, {})
GetItem(key) ==
    IF key \in DOMAIN connections THEN connections[key] ELSE EmptyData

\* the test without `selected_node != tree.root`
IsAnyNode(node) == node # NoNode

\* `selected_node and selected_node != tree.root`
IsConnectionNode(node) == node # NoNode /\ node # RootId

\* the node under the tree's cursor: none, the root or a connection's node
CursorNodes == { NoNode, RootId } \cup NodeIds

----------------------------------------------------------------------------
(* on_select_changed: the connection menu *)

\* await self.push_screen(modal, cb), with the closure's captured variables
push_screen(modal, cb, node, data) ==
    /\ screen' = modal
    /\ callback' = cb
    /\ selected_node' = node
    /\ connection_data' = data
    /\ result' = Pending

on_select_add ==
    /\ tree_current_id <= MaxNodeId
    /\ push_screen("ConnectionModal", "handle_add_connection", NoNode, EmptyData)
    /\ UNCHANGED notification

on_select_edit(node) ==
    IF IsConnectionNode(node)
    THEN /\ push_screen("ConnectionModal", "handle_edit_connection", node,
                        GetItem(node))
         /\ UNCHANGED notification
    ELSE /\ notification' = "No connection selected"
         /\ UNCHANGED modal_vars

on_select_remove(node) ==
    IF IsConnectionNode(node)
    THEN /\ push_screen("ConfirmModal", "handle_remove_connection", node,
                        EmptyData)
         /\ UNCHANGED notification
    ELSE /\ notification' = "No connection selected"
         /\ UNCHANGED modal_vars

\* event.value is one of the menu's options; tree.cursor_node is read first
on_select_changed(value, cursor_node) ==
    /\ Idle
    /\ ~sidebar_hidden
    /\ CASE value = "add" -> on_select_add
         [] value = "edit" -> on_select_edit(cursor_node)
         [] value = "remove" -> on_select_remove(cursor_node)
    /\ UNCHANGED << tab_vars, sidebar_hidden, conn_vars, exception >>

----------------------------------------------------------------------------
(* The modal screens: a button press dismisses the screen with a result *)

\* self.dismiss(value): the screen is popped, value goes to the callback
dismiss(value) ==
    /\ screen' = "main"
    /\ result' = value
    /\ UNCHANGED << callback, selected_node, connection_data >>

\* ConnectionModal.on_button_pressed; form holds the values of the five inputs
ConnectionModal_on_button_pressed(button, form) ==
    /\ screen = "ConnectionModal"
    /\ exception = "none"
    /\ CASE button = "save" -> dismiss(Dict(form))
         [] button = "cancel" -> dismiss(None)
    /\ UNCHANGED << tab_vars, sidebar_hidden, conn_vars, notification, exception >>

\* ConfirmModal.on_button_pressed
ConfirmModal_on_button_pressed(button) ==
    /\ screen = "ConfirmModal"
    /\ exception = "none"
    /\ CASE button = "yes" -> dismiss(Bool(TRUE))
         [] button = "no" -> dismiss(Bool(FALSE))
    /\ UNCHANGED << tab_vars, sidebar_hidden, conn_vars, notification, exception >>

----------------------------------------------------------------------------
(* The callbacks, run with the result of the dismissed modal *)

\* the screen was dismissed and callback cb has not run yet
Dismissed(cb) ==
    /\ screen = "main"
    /\ callback = cb
    /\ result # Pending
    /\ exception = "none"

\* the callback returned: nothing is left of the modal
callback_done ==
    /\ screen' = "main"
    /\ callback' = "none"
    /\ selected_node' = NoNode
    /\ connection_data' = EmptyData
    /\ result' = Pending

handle_add_connection ==
    /\ Dismissed("handle_add_connection")
    /\ IF Truthy(result)
       THEN LET label == result.data.label
                new_node == NewNodeId
            IN  /\ tree' = TreeAdd(new_node, label)
                /\ tree_current_id' = tree_current_id + 1
                /\ connections' = SetItem(new_node, result.data)
                /\ notification' = "Connection added: " \o label
       ELSE UNCHANGED << conn_vars, notification >>
    /\ callback_done
    /\ UNCHANGED << tab_vars, sidebar_hidden, exception >>

\* an edit that stores the result under a fresh identifier
EditKeyFresh == tree_current_id

\* the key handle_edit_connection stores the result under
EditKey == selected_node

handle_edit_connection ==
    /\ Dismissed("handle_edit_connection")
    /\ IF Truthy(result)
       THEN LET label == result.data.label
            IN  /\ tree' = TreeSetLabel(selected_node, label)
                /\ connections' = SetItem(EditKey, result.data)
                /\ notification' = "Connection updated: " \o label
                /\ UNCHANGED tree_current_id
       ELSE UNCHANGED << conn_vars, notification >>
    /\ callback_done
    /\ UNCHANGED << tab_vars, sidebar_hidden, exception >>

handle_remove_connection ==
    /\ Dismissed("handle_remove_connection")
    /\ IF Truthy(result)
       THEN LET label == NodeLabel(selected_node)
            IN  /\ tree' = TreeRemove(selected_node)
                /\ UNCHANGED tree_current_id
                /\ IF selected_node \in DOMAIN connections
                   THEN /\ connections' = DelItem(selected_node)
                        /\ notification' = "Connection removed: " \o label
                        /\ UNCHANGED exception
                   ELSE \* del raises KeyError: the callback stops here
                        /\ exception' = "KeyError"
                        /\ UNCHANGED << connections, notification >>
       ELSE UNCHANGED << conn_vars, notification, exception >>
    /\ callback_done
    /\ UNCHANGED << tab_vars, sidebar_hidden >>

----------------------------------------------------------------------------
(* The application *)

MenuValues == { "add", "edit", "remove" }

Next ==
    \/ action_new_tab
    \/ action_close_tab
    \/ activate_tab
    \/ action_toggle_sidebar
    \/ \E value \in MenuValues, cursor_node \in CursorNodes :
          on_select_changed(value, cursor_node)
    \/ \E button \in { "save", "cancel" }, form \in FormInputs :
          ConnectionModal_on_button_pressed(button, form)
    \/ \E button \in { "yes", "no" } : ConfirmModal_on_button_pressed(button)
    \/ handle_add_connection
    \/ handle_edit_connection
    \/ handle_remove_connection

Spec == Init /\ [][Next]_vars

----------------------------------------------------------------------------
(* Properties *)

\* C1: a lookup in self.connections reflects the last confirmed mutation of
\* the identifier: the callback of a saved add or edit leaves exactly the
\* saved record under the identifier, the callback of a confirmed remove
\* leaves the identifier absent, and no other step changes what a lookup of
\* any identifier returns.
C1_LookupReflectsLastMutation ==
    [][ \A id \in DOMAIN connections \cup DOMAIN connections'
                  \cup { tree_current_id, selected_node } :
          CASE Dismissed("handle_add_connection") /\ result.kind = "dict"
                 /\ id = tree_current_id ->
                   id \in DOMAIN connections' /\ connections'[id] = result.data
            [] Dismissed("handle_edit_connection") /\ result.kind = "dict"
                 /\ id = selected_node ->
                   id \in DOMAIN connections' /\ connections'[id] = result.data
            [] Dismissed("handle_remove_connection") /\ result = Bool(TRUE)
                 /\ id = selected_node ->
                   id \notin DOMAIN connections'
            [] OTHER ->
                   /\ id \in DOMAIN connections' <=> id \in DOMAIN connections
                   /\ id \in DOMAIN connections =>
                        connections'[id] = connections[id]
      ]_vars

\* C1 witness: connection 1 was added and removed, connection 2 was added and
\* then edited; the lookup of 2 gives the edited record, 1 is absent.
C1_Witness ==
    /\ Idle
    /\ tree_current_id = 3
    /\ DOMAIN connections = { 2 }
    /\ connections[2] = ConnectionRecord("10.0.0.5", "70000", "db1", "dev", "")
    /\ notification = "Connection updated: db1"

\* C2: a confirmed edit keeps every identifier: the keys of self.connections
\* and the identifiers of the tree nodes are the same before and after, the
\* edited node carries the new label under its old identifier, and the record
\* and the node of every other connection are unchanged.
C2_EditKeepsIdentifiers ==
    [][ (Dismissed("handle_edit_connection") /\ Truthy(result)) =>
          /\ DOMAIN connections' = DOMAIN connections
          /\ selected_node \in DOMAIN connections'
          /\ connections'[selected_node] = result.data
          /\ \A k \in DOMAIN connections \ { selected_node } :
                connections'[k] = connections[k]
          /\ Len(tree') = Len(tree)
          /\ \A i \in 1..Len(tree) :
                /\ tree'[i].id = tree[i].id
                /\ tree[i].id # selected_node => tree'[i] = tree[i]
                /\ tree[i].id = selected_node =>
                     tree'[i].label = result.data.label
      ]_vars

\* C2 witness: with two connections stored, an edit has just been applied.
C2_Witness ==
    /\ Idle
    /\ Cardinality(DOMAIN connections) = 2
    /\ notification = "Connection updated: "
    /\ \E i \in 1..Len(tree) :
          /\ tree[i].label = ""
          /\ connections[tree[i].id] = EmptyData
    /\ \E i \in 1..Len(tree) : tree[i].label = "db1"

\* C3: a confirmed add stores the record under exactly one new identifier,
\* which no earlier add was given (identifiers in use or handed out before lie
\* below the tree's id counter, the new one does not, and the counter never
\* goes down), so the number of stored connections grows by one and no
\* existing record is overwritten, whatever the labels.
C3_AddUsesFreshIdentifier ==
    [][ /\ tree_current_id' >= tree_current_id
        /\ \A k \in DOMAIN connections \cup NodeIds : k < tree_current_id
        /\ (Dismissed("handle_add_connection") /\ Truthy(result)) =>
              /\ Cardinality(DOMAIN connections')
                   = Cardinality(DOMAIN connections) + 1
              /\ \A k \in DOMAIN connections :
                    k \in DOMAIN connections' /\ connections'[k] = connections[k]
              /\ \A k \in DOMAIN connections' \ DOMAIN connections :
                    /\ k >= tree_current_id
                    /\ k < tree_current_id'
                    /\ connections'[k] = result.data
      ]_vars

\* C3 witness: after a removal, two connections with the same label "db1"
\* are stored under different identifiers, the second just added.
C3_Witness ==
    /\ Idle
    /\ tree_current_id = 4
    /\ DOMAIN connections = { 2, 3 }
    /\ connections[2].label = "db1"
    /\ connections[3].label = "db1"
    /\ notification = "Connection added: db1"

\* C4: every stored connection record has a port that is an integer in
\* 1..65535 (here: the decimal numeral of one).
C4_PortInRange ==
    \A k \in DOMAIN connections :
       \E n \in 1..65535 : connections[k].port = ToString(n)

\* C5: two connections are under the same tree parent exactly when their
\* stored group values are equal.
C5_GroupedByGroup ==
    \A i, j \in 1..Len(tree) :
       (tree[i].id \in DOMAIN connections /\ tree[j].id \in DOMAIN connections) =>
          ( tree[i].parent = tree[j].parent
              <=> connections[tree[i].id].group = connections[tree[j].id].group )

\* C6: choosing Edit or Remove while the tree's cursor is on no node or on
\* the root notifies "No connection selected", pushes no modal and leaves
\* self.connections and the tree unchanged.
C6_NoSelectionReported ==
    [][ \A value \in { "edit", "remove" }, node \in { NoNode, RootId } :
          on_select_changed(value, node) =>
             /\ notification' = "No connection selected"
             /\ screen' = "main"
             /\ callback' = "none"
             /\ UNCHANGED << connections, tree >>
      ]_vars

\* C6 witness: connections exist, and the last request named none of them.
C6_Witness ==
    /\ Idle
    /\ Len(tree) >= 1
    /\ notification = "No connection selected"

\* C7: at least one tab always exists; a tab leaves the tab bar only when
\* more than one tab exists, and then it is the active tab; action_close_tab
\* with exactly one tab changes neither the tabs, the active tab nor
\* tab_counter.
C7_LastTabStays ==
    /\ Len(tabs) >= 1
    /\ [][ /\ Len(tabs') >= 1
           /\ tabs' # tabs /\ Len(tabs') <= Len(tabs) =>
                 /\ Len(tabs) > 1
                 /\ tabs' = WithoutTab(active)
           /\ (action_close_tab /\ Len(tabs) = 1) => UNCHANGED tab_vars
         ]_vars

\* C7 witness: tabs were created and closed, and closing the last one left
\* was refused.
C7_Witness ==
    /\ Len(tabs) = 1
    /\ tab_counter >= 3
    /\ notification = "Cannot close the last tab"

\* C8: tab_counter starts at len(INITIAL_TABS)+1 and never decreases; every
\* tab ever created has an identifier "tab-n" with n below tab_counter; a
\* step that adds a tab adds "tab-N" for N the value of tab_counter, which is
\* none of those, raises tab_counter by exactly one and makes the new tab
\* the active one.
C8_TabIdentifiersUnique ==
    /\ tab_counter = Len(INITIAL_TABS) + 1
    /\ [][ /\ tab_counter' >= tab_counter
           /\ \A i \in 1..Len(tabs) :
                 tabs[i] \in { TabId(n) : n \in 1..(tab_counter - 1) }
           /\ \A i, j \in 1..Len(tabs) : tabs[i] = tabs[j] => i = j
           /\ Len(tabs') > Len(tabs) =>
                 /\ tabs' = Append(tabs, TabId(tab_counter))
                 /\ TabId(tab_counter) \notin
                       { TabId(n) : n \in 1..(tab_counter - 1) }
                 /\ tab_counter' = tab_counter + 1
                 /\ active' = TabId(tab_counter)
         ]_vars

\* C8 witness: tab-2 was created and closed, then tab-3 was created and is
\* the active tab.
C8_Witness ==
    /\ tabs = << "tab-1", "tab-3" >>
    /\ active = "tab-3"
    /\ tab_counter = 4
    /\ notification = "New tab created: tab-3"

\* C9: from the moment a modal is pushed until its callback has run with
\* None (Cancel) or False (No), self.connections and the tree do not change;
\* the callback of a Save always applies the add (one more record, the saved
\* one, and a node with its label) or the edit (the saved record and label).
C9_DismissChangesNothing ==
    [][ /\ ( callback' # "none"
               \/ (callback # "none" /\ result \in { None, Bool(FALSE) }) ) =>
              UNCHANGED << connections, tree, tree_current_id >>
        /\ (Dismissed("handle_add_connection") /\ result.kind = "dict") =>
              /\ Len(tree') = Len(tree) + 1
              /\ tree'[Len(tree')].label = result.data.label
              /\ tree'[Len(tree')].id \in DOMAIN connections' \ DOMAIN connections
              /\ connections'[tree'[Len(tree')].id] = result.data
        /\ (Dismissed("handle_edit_connection") /\ result.kind = "dict") =>
              /\ connections'[selected_node] = result.data
              /\ \E i \in 1..Len(tree') :
                    /\ tree'[i].id = selected_node
                    /\ tree'[i].label = result.data.label
      ]_vars

\* C9 witness: a Save with every input empty was applied earlier, and Cancel
\* has now been pressed in the edit modal of that connection.
C9_Witness ==
    /\ Dismissed("handle_edit_connection")
    /\ result = None
    /\ selected_node \in DOMAIN connections
    /\ connections[selected_node] = EmptyData

\* C10: the keys of self.connections are the identifiers of the nodes under
\* the tree's root, the node captured for a pushed edit or remove is one of
\* them until its callback has run, and no del has raised KeyError.
C10_KeysAreTreeNodes ==
    /\ DOMAIN connections = NodeIds
    /\ callback \in { "handle_edit_connection", "handle_remove_connection" } =>
          selected_node \in DOMAIN connections
    /\ exception = "none"

\* C10 witness: a confirmed remove has been carried out while another
\* connection stays.
C10_Witness ==
    /\ Idle
    /\ Len(tree) >= 1
    /\ notification = "Connection removed: db1"

====
